---------------------------- MODULE Spec2Model ----------------------------
(***************************************************************************)
(* Yazbaka (src/yazbaka.py): snapshot pairing, change detection, the       *)
(* snapshot gate and the snapshot -> transfer -> cleanup workflow.         *)
(*                                                                         *)
(* Strings are sequences of one-character strings, so that the searches    *)
(* and regular expressions of the source are computed on the characters.   *)
(* Timestamps are shortened from YYYY-MM-DD_HHMM to a fixed width of       *)
(* StampWidth digits that count minutes.                                   *)
(***************************************************************************)
EXTENDS Integers, Sequences, FiniteSets, TLC

VARIABLES
    args,       \* the validated argparse.Namespace (self.args)
    now,        \* self.now, in minutes
    srcStore,   \* snapshots of the source dataset held by the store, in listing order
    destStore,  \* snapshots of the destination dataset held by the store
    pc,         \* position of the run / of the call
    changed,    \* last verdict of has_changed ("none" before it ran)
    decision,   \* outcome of conditional_snapshot
    log,        \* external zfs queries and commands issued, in order
    err,        \* exception that ended the run ("none" if none)
    src,        \* get_pairs: argument src
    dest,       \* get_pairs: argument dest
    pairs,      \* get_pairs: returned list
    records,    \* has_changed: lines of `zfs get -Hpr written`
    steps,      \* do_all: the steps entered so far, in order
    srcBefore,  \* the source's snapshots when the run started
    destBefore, \* the destination's snapshots when the run started
    parsed,     \* validate_args: the namespace as parse_args returned it
    time_str,   \* _get_timedelta: argument time_str
    delta       \* _get_timedelta: returned timedelta or raised exception

vars == <<args, now, srcStore, destStore, pc, changed, decision, log, err,
          src, dest, pairs, records, steps, srcBefore, destBefore,
          parsed, time_str, delta>>

---------------------------------------------------------------------------
(* Bounds of the model *)

\* longest snapshot-name list handed to get_pairs
MaxLen == 4
\* longest record stream handed to has_changed
MaxRecords == 3
\* most snapshots a dataset holds in the store before a run
MaxStore == 2
\* longest number of a time string, in digits
MaxDigits == 2

---------------------------------------------------------------------------
(* Strings *)

Str1(c) == <<c>>

Last(s) == s[Len(s)]

SeqsUpTo(S, n) == UNION {[1..k -> S] : k \in 0..n}

Min(S) == CHOOSE x \in S : \A y \in S : x <= y

\* str.find(needle): lowest 0-based index of needle in hay, -1 if absent
Find(hay, needle) ==
    LET hits == {k \in 1..(Len(hay) - Len(needle) + 1) :
                    \A m \in 1..Len(needle) : hay[k + m - 1] = needle[m]}
    IN  IF hits = {} THEN -1 ELSE Min(hits) - 1

Digits == {"0", "1", "2", "3", "4", "5", "6", "7", "8", "9"}

\* code point order of the characters a timestamp can hold
Ord(c) ==
    CASE c = "-" -> 45
      [] c = "0" -> 48 [] c = "1" -> 49 [] c = "2" -> 50 [] c = "3" -> 51
      [] c = "4" -> 52 [] c = "5" -> 53 [] c = "6" -> 54 [] c = "7" -> 55
      [] c = "8" -> 56 [] c = "9" -> 57
      [] c = "T" -> 84
      [] c = "_" -> 95
      [] OTHER -> 97

\* Python's str < str
StrLess(a, b) ==
    \E k \in 1..(Len(b)) :
        /\ \A m \in 1..(k - 1) : m <= Len(a) /\ a[m] = b[m]
        /\ \/ k = Len(a) + 1
           \/ k <= Len(a) /\ Ord(a[k]) < Ord(b[k])

\* Python's None, where a string is expected (no match is ever empty)
None == << >>

\* re.search(r"@.*$", name).group(0)[1:] : everything after the first "@"
AfterAt(name) ==
    LET k == Find(name, Str1("@"))
    IN  IF k = -1 THEN None ELSE SubSeq(name, k + 2, Len(name))

---------------------------------------------------------------------------
(* Yazbaka._get_timestamp *)

\* re.search(r"[0-9][0-9\-_T]*$", string): leftmost digit from which only
\* digits, "-", "_" and "T" follow up to the end
_get_timestamp(string) ==
    LET starts == {k \in 1..Len(string) :
                      /\ string[k] \in Digits
                      /\ \A m \in k..Len(string) :
                            string[m] \in Digits \cup {"-", "_", "T"}}
    IN  IF starts = {} THEN None ELSE SubSeq(string, Min(starts), Len(string))

---------------------------------------------------------------------------
(* Yazbaka.get_pairs *)

\* get_pairs_step matching on the timestamps instead of the suffixes
get_pairs_step_by_stamp(s, d, i, j, ps) ==
    LET cur_src    == AfterAt(s[i + 1])
        cur_dest   == AfterAt(d[j + 1])
        src_stamp  == _get_timestamp(cur_src)
        dest_stamp == _get_timestamp(cur_dest)
    IN  IF src_stamp = dest_stamp
          THEN [i |-> i + 1, j |-> j + 1, pairs |-> Append(ps, cur_src)]
        ELSE IF src_stamp = None
          THEN [i |-> i + 1, j |-> j, pairs |-> ps]
        ELSE IF dest_stamp = None
          THEN [i |-> i, j |-> j + 1, pairs |-> ps]
        ELSE IF StrLess(src_stamp, dest_stamp)
          THEN [i |-> i + 1, j |-> j, pairs |-> ps]
        ELSE [i |-> i, j |-> j + 1, pairs |-> ps]

\* get_pairs_step advancing the list with the newer timestamp
get_pairs_step_newer(s, d, i, j, ps) ==
    LET cur_src    == AfterAt(s[i + 1])
        cur_dest   == AfterAt(d[j + 1])
        src_stamp  == _get_timestamp(cur_src)
        dest_stamp == _get_timestamp(cur_dest)
    IN  IF cur_src = cur_dest
          THEN [i |-> i + 1, j |-> j + 1, pairs |-> Append(ps, cur_src)]
        ELSE IF src_stamp = None
          THEN [i |-> i + 1, j |-> j, pairs |-> ps]
        ELSE IF dest_stamp = None
          THEN [i |-> i, j |-> j + 1, pairs |-> ps]
        ELSE IF StrLess(dest_stamp, src_stamp)
          THEN [i |-> i + 1, j |-> j, pairs |-> ps]
        ELSE [i |-> i, j |-> j + 1, pairs |-> ps]

\* get_pairs_step advancing dest past a source suffix without timestamp
get_pairs_step_skips_dest(s, d, i, j, ps) ==
    LET cur_src    == AfterAt(s[i + 1])
        cur_dest   == AfterAt(d[j + 1])
        src_stamp  == _get_timestamp(cur_src)
        dest_stamp == _get_timestamp(cur_dest)
    IN  IF cur_src = cur_dest
          THEN [i |-> i + 1, j |-> j + 1, pairs |-> Append(ps, cur_src)]
        ELSE IF src_stamp = None
          THEN [i |-> i, j |-> j + 1, pairs |-> ps]
        ELSE IF dest_stamp = None
          THEN [i |-> i, j |-> j + 1, pairs |-> ps]
        ELSE IF StrLess(src_stamp, dest_stamp)
          THEN [i |-> i + 1, j |-> j, pairs |-> ps]
        ELSE [i |-> i, j |-> j + 1, pairs |-> ps]

\* one iteration of the while loop; i, j are 0-based as in the source
get_pairs_step(s, d, i, j, ps) ==
    LET cur_src    == AfterAt(s[i + 1])
        cur_dest   == AfterAt(d[j + 1])
        src_stamp  == _get_timestamp(cur_src)
        dest_stamp == _get_timestamp(cur_dest)
    IN  IF cur_src = cur_dest
          THEN [i |-> i + 1, j |-> j + 1, pairs |-> Append(ps, cur_src)]
        ELSE IF src_stamp = None
          THEN [i |-> i + 1, j |-> j, pairs |-> ps]
        ELSE IF dest_stamp = None
          THEN [i |-> i, j |-> j + 1, pairs |-> ps]
        ELSE IF StrLess(src_stamp, dest_stamp)
          THEN [i |-> i + 1, j |-> j, pairs |-> ps]
        ELSE [i |-> i, j |-> j + 1, pairs |-> ps]

\* get_pairs_loop leaving the loop one element early (i < len(src) - 1)
RECURSIVE get_pairs_loop_early(_, _, _, _, _)
get_pairs_loop_early(s, d, i, j, ps) ==
    IF i < Len(s) - 1 /\ j < Len(d)
      THEN LET n == get_pairs_step(s, d, i, j, ps)
           IN  get_pairs_loop_early(s, d, n.i, n.j, n.pairs)
      ELSE ps

RECURSIVE get_pairs_loop(_, _, _, _, _)
get_pairs_loop(s, d, i, j, ps) ==
    IF i < Len(s) /\ j < Len(d)
      THEN LET n == get_pairs_step(s, d, i, j, ps)
           IN  get_pairs_loop(s, d, n.i, n.j, n.pairs)
      ELSE ps

get_pairs(s, d) == get_pairs_loop(s, d, 0, 0, << >>)

---------------------------------------------------------------------------
(* Names used by the model *)

Source      == <<"p", "/", "d">>
Destination == <<"q", "/", "d">>
Label       == <<"y">>

\* width of a timestamp of the model (YYYY-MM-DD_HHMM in the source)
StampWidth == 2

DigitChar(n) ==
    CASE n = 0 -> "0" [] n = 1 -> "1" [] n = 2 -> "2" [] n = 3 -> "3"
      [] n = 4 -> "4" [] n = 5 -> "5" [] n = 6 -> "6" [] n = 7 -> "7"
      [] n = 8 -> "8" [] n = 9 -> "9"

DigitVal(c) == CHOOSE n \in 0..9 : DigitChar(n) = c

\* now.isoformat(timespec='minutes', sep="_").replace(":", "")
Stamp(minutes) == <<DigitChar(minutes \div 10), DigitChar(minutes % 10)>>

\* <dataset>@<suffix>
Snap(dataset, suffix) == dataset \o Str1("@") \o suffix

\* suffixes <label>_<timestamp> written by this tool at minute 0, 30, 60
Y00 == Label \o Str1("_") \o Stamp(0)
Y30 == Label \o Str1("_") \o Stamp(30)
Y60 == Label \o Str1("_") \o Stamp(60)
\* a snapshot of another label that has Label as a prefix, taken at minute 0
YZ00 == Label \o <<"z", "_">> \o Stamp(0)
\* a hand-made snapshot carrying the label and no timestamp
YX == Label \o <<"_", "x">>
\* a snapshot of a foreign label
O60 == <<"o", "_">> \o Stamp(60)

---------------------------------------------------------------------------
(* Yazbaka.has_changed *)

\* a line of `zfs get -Hpr written`: elements[0] is the name, elements[2]
\* the byte count; only the name can hold "/" or "@"
Line(name, written) == [name |-> name, written |-> written]

\* has_changed_line recording a live write in the flag instead of returning
has_changed_line_no_return(a, line, zero) ==
    LET true_recursive       == Find(a.send, Str1("R")) # -1
        nested_dataset_slash == a.source \o Str1("/")
    IN  IF Find(line.name, nested_dataset_slash) # -1 /\ ~true_recursive
          THEN [ret |-> FALSE, zero |-> zero]
        ELSE IF Find(line.name, Str1("@")) = -1
          THEN IF line.written # 0
                 THEN [ret |-> FALSE, zero |-> FALSE]
                 ELSE [ret |-> FALSE, zero |-> TRUE]
        ELSE IF Find(line.name, Str1("@") \o a.label) # -1
          THEN [ret |-> FALSE, zero |-> TRUE]
        ELSE IF line.written # 0
          THEN [ret |-> FALSE, zero |-> FALSE]
          ELSE [ret |-> FALSE, zero |-> zero]

\* has_changed_line counting the written value of the tool's own snapshots
has_changed_line_counts_own(a, line, zero) ==
    LET true_recursive       == Find(a.send, Str1("R")) # -1
        nested_dataset_slash == a.source \o Str1("/")
    IN  IF Find(line.name, nested_dataset_slash) # -1 /\ ~true_recursive
          THEN [ret |-> FALSE, zero |-> zero]
        ELSE IF Find(line.name, Str1("@")) = -1
          THEN IF line.written # 0
                 THEN [ret |-> TRUE, zero |-> zero]
                 ELSE [ret |-> FALSE, zero |-> TRUE]
        ELSE IF line.written # 0
          THEN [ret |-> FALSE, zero |-> FALSE]
          ELSE [ret |-> FALSE, zero |-> zero]

\* has_changed_line without lines 56-57: descendant records are not passed over
has_changed_line_no_skip(a, line, zero) ==
    IF Find(line.name, Str1("@")) = -1
      THEN IF line.written # 0
             THEN [ret |-> TRUE, zero |-> zero]
             ELSE [ret |-> FALSE, zero |-> TRUE]
    ELSE IF Find(line.name, Str1("@") \o a.label) # -1
      THEN [ret |-> FALSE, zero |-> TRUE]
    ELSE IF line.written # 0
      THEN [ret |-> FALSE, zero |-> FALSE]
      ELSE [ret |-> FALSE, zero |-> zero]

\* the body of the for loop: ret is TRUE when the loop returns True
has_changed_line(a, line, zero) ==
    LET true_recursive       == Find(a.send, Str1("R")) # -1
        nested_dataset_slash == a.source \o Str1("/")
    IN  IF Find(line.name, nested_dataset_slash) # -1 /\ ~true_recursive
          THEN [ret |-> FALSE, zero |-> zero]
        ELSE IF Find(line.name, Str1("@")) = -1
          THEN IF line.written # 0
                 THEN [ret |-> TRUE, zero |-> zero]
                 ELSE [ret |-> FALSE, zero |-> TRUE]
        ELSE IF Find(line.name, Str1("@") \o a.label) # -1
          THEN [ret |-> FALSE, zero |-> TRUE]
        ELSE IF line.written # 0
          THEN [ret |-> FALSE, zero |-> FALSE]
          ELSE [ret |-> FALSE, zero |-> zero]

RECURSIVE has_changed_loop(_, _, _, _)
has_changed_loop(a, lines, k, zero) ==
    IF k > Len(lines)
      THEN ~zero
      ELSE LET r == has_changed_line(a, lines[k], zero)
           IN  IF r.ret THEN TRUE ELSE has_changed_loop(a, lines, k + 1, r.zero)

\* the verdict on the output `lines` of the written query
has_changed(a, lines) == has_changed_loop(a, lines, 1, TRUE)

---------------------------------------------------------------------------
(* Yazbaka.list_yaz_snapshots *)

\* the lines of `zfs list -H -t snapshot dataset` that hold dataset@label
list_yaz_snapshots(a, dataset, store) ==
    SelectSeq(store, LAMBDA line : Find(line, dataset \o Str1("@") \o a.label) # -1)

---------------------------------------------------------------------------
(* Configurations *)

\* send option strings after validate_args: none, or "-R" (recursive)
SendOptions == {<< >>, <<"-", "R">>}

\* recv option strings after validate_args: none, or "-F" (force)
RecvOptions == {<< >>, <<"-", "F">>}

\* omit durations in minutes; 0 stands for no --omit (None is falsy, as is
\* a zero timedelta)
OmitValues == {0, 60}

\* every configuration validate_args accepts over the model's names
ValidArgs ==
    {a \in [source : {Source}, destination : {Destination}, label : {Label},
            send : SendOptions, recv : RecvOptions, omit : OmitValues,
            incremental : BOOLEAN, full_incremental : BOOLEAN,
            transfer_only : BOOLEAN, no_omit_unchanged : BOOLEAN,
            snap_only : BOOLEAN, no_cleanup : BOOLEAN] :
        ~(a.full_incremental /\ a.incremental)}

DefaultArgs ==
    [source |-> Source, destination |-> Destination, label |-> Label,
     send |-> << >>, recv |-> << >>, omit |-> 0, incremental |-> FALSE,
     full_incremental |-> FALSE, transfer_only |-> FALSE,
     no_omit_unchanged |-> FALSE, snap_only |-> FALSE, no_cleanup |-> FALSE]

---------------------------------------------------------------------------
(* Yazbaka._get_timedelta *)

\* re.match(r"^[0-9]*", time_str).group(0): the leading digits, none included
leading_digits(s) ==
    LET k == Min({m \in 1..(Len(s) + 1) : m = Len(s) + 1 \/ s[m] \notin Digits})
    IN  SubSeq(s, 1, k - 1)

\* int(num_str) for a text of decimal digits
RECURSIVE int(_)
int(num_str) ==
    IF num_str = << >> THEN 0
    ELSE 10 * int(SubSeq(num_str, 1, Len(num_str) - 1)) + DigitVal(Last(num_str))

\* what _get_timedelta leaves behind: the exception raised ("none" if none)
\* and the timedelta returned, as whole days and minutes of the last day
Delta(e, days, minutes) == [err |-> e, days |-> days, minutes |-> minutes]

\* datetime.timedelta(weeks=, days=, hours=, minutes=): normalised to days
\* and a rest below one day; more than 999999999 days is an OverflowError
timedelta(weeks, days, hours, minutes) ==
    LET rest == hours * 60 + minutes
        d    == weeks * 7 + days + rest \div 1440
    IN  IF d > 999999999
          THEN Delta("OverflowError", 0, 0)
          ELSE Delta("none", d, rest % 1440)

\* line 320 with months of 30 days
month_days_30(num) == num * 30

\* line 320: days=num * 31
month_days(num) == num * 31

unit_minutes ==
    {<<"m">>,
     <<"m", "i", "n", "u", "t", "e">>,
     <<"m", "i", "n", "u", "t", "e", "s">>}
unit_hours ==
    {<<"h">>,
     <<"h", "o", "u", "r">>,
     <<"h", "o", "u", "r", "s">>}
unit_days ==
    {<<"d">>,
     <<"d", "a", "y">>,
     <<"d", "a", "y", "s">>}
unit_weeks ==
    {<<"w">>,
     <<"w", "e", "e", "k">>,
     <<"w", "e", "e", "k", "s">>}
unit_months ==
    {<<"m", "o", "n">>,
     <<"m", "o", "n", "t", "h">>,
     <<"m", "o", "n", "t", "h", "s">>}
unit_years ==
    {<<"y">>,
     <<"y", "e", "a", "r">>,
     <<"y", "e", "a", "r", "s">>}

_get_timedelta(s) ==
    LET num_str  == leading_digits(s)
        num      == int(num_str)
        spec_str == SubSeq(s, Len(num_str) + 1, Len(s))
    IN  IF num_str = << >>
          THEN Delta("ValueError", 0, 0)
        ELSE IF spec_str \in unit_minutes
          THEN timedelta(0, 0, 0, num)
        ELSE IF spec_str \in unit_hours
          THEN timedelta(0, 0, num, 0)
        ELSE IF spec_str \in unit_days
          THEN timedelta(0, num, 0, 0)
        ELSE IF spec_str \in unit_weeks
          THEN timedelta(num, 0, 0, 0)
        ELSE IF spec_str \in unit_months
          THEN timedelta(0, month_days(num), 0, 0)
        ELSE IF spec_str \in unit_years
          THEN timedelta(0, num * 365, 0, 0)
          ELSE Delta("ValueError", 0, 0)

---------------------------------------------------------------------------
(* Yazbaka.validate_args *)

\* s.replace("'", "")
unquote(s) == SelectSeq(s, LAMBDA c : c # "'")

\* the letters validate_args accepts in args.send and in args.recv
SendFlags == {"D", "L", "P", "R", "b", "c", "e", "h", "n", "p", "s", "v", "w"}
RecvFlags == {"F", "h", "M", "n", "s", "u", "v"}

\* "-" + flags, for flags that are not empty
dashed(flags) == IF flags # << >> THEN Str1("-") \o flags ELSE flags

\* lines 421 and 428 accepting every text
is_dataset_any(s) == TRUE

\* re.match(r"[^/]+/[^/]+.*", s): characters other than "/", then "/", then
\* a character other than "/"
is_dataset(s) ==
    \E k \in 2..(Len(s) - 1) :
       /\ \A m \in 1..(k - 1) : s[m] # "/"
       /\ s[k] = "/"
       /\ s[k + 1] # "/"

\* what validate_args leaves behind: the exception that ended it ("none" if
\* none) and args as it has been rewritten up to there
Validated(e, a) == [err |-> e, args |-> a]

\* the rewritten omit: the timedelta in minutes, and 0 for an omit that is
\* not set (None and a zero timedelta are both falsy at lines 220 and 440)
omit_of(a) ==
    LET td == _get_timedelta(unquote(a.omit))
    IN  IF a.omit = None THEN 0 ELSE td.days * 1440 + td.minutes

validate_args(a, exit_on_error) ==
    LET thrown == IF exit_on_error THEN "SystemExit" ELSE "ValueError"
        a1 == [a  EXCEPT !.send = unquote(a.send)]
        a2 == [a1 EXCEPT !.send = dashed(a1.send)]
        a3 == [a2 EXCEPT !.recv = unquote(a2.recv)]
        a4 == [a3 EXCEPT !.recv = dashed(a3.recv)]
        a5 == [a4 EXCEPT !.source = unquote(a4.source)]
        a6 == IF "destination" \in DOMAIN a5
                THEN [a5 EXCEPT !.destination = unquote(a5.destination)]
                ELSE a5
        destination == IF "destination" \in DOMAIN a6 THEN a6.destination ELSE Str1("-")
        a7 == [a6 EXCEPT !.omit = omit_of(a6)]
        a8 == [a7 EXCEPT !.label = unquote(a7.label)]
    IN  IF a.full_incremental /\ a.incremental
          THEN Validated(thrown, a)
        ELSE IF \E k \in 1..Len(a1.send) : a1.send[k] \notin SendFlags
          THEN Validated(thrown, a1)
        ELSE IF \E k \in 1..Len(a3.recv) : a3.recv[k] \notin RecvFlags
          THEN Validated(thrown, a3)
        ELSE IF ~is_dataset(a5.source)
          THEN Validated(thrown, a5)
        ELSE IF "destination" \in DOMAIN a6 /\ ~is_dataset(a6.destination)
          THEN Validated(thrown, a6)
        ELSE IF a6.source[1] = "/" \/ destination[1] = "/"
          THEN Validated(thrown, a6)
        ELSE IF a6.omit # None /\ _get_timedelta(unquote(a6.omit)).err # "none"
          THEN Validated(_get_timedelta(unquote(a6.omit)).err, a6)
          ELSE Validated("none", a8)

---------------------------------------------------------------------------
(* Lines of the written query *)

Child == Source \o <<"/", "c">>

\* the names `zfs get -Hpr written p/d` can report: the dataset, its
\* snapshots, a child dataset and the child's snapshots
RecordNames ==
    {Source, Snap(Source, Y30), Snap(Source, YZ00), Snap(Source, O60),
     Child, Snap(Child, Y30), Snap(Child, O60)}

WrittenValues == {0, 512}

RecordLines == {Line(n, w) : n \in RecordNames, w \in WrittenValues}

---------------------------------------------------------------------------
(* External commands and their outcomes *)

\* a zfs command line handed to subprocess.run
Cmd(cmd, opt, x, y) == [cmd |-> cmd, opt |-> opt, x |-> x, y |-> y]

\* what subprocess.run reports of a command that ended with a nonzero
\* return code: the command and its stderr
Failed(cmd, stderr) ==
    [cmd |-> "nonzero exit", opt |-> None, x |-> <<cmd>>, y |-> stderr]

\* the marker searched in the stderr of a failed `zfs snapshot`
Marker == "permission denied"

\* stderr texts of a failed `zfs snapshot`, cut into pieces of which the
\* marker is one: it starts the text, follows other text, or is absent
StderrTexts ==
    {<<Marker>>, <<"cannot create snapshot: ", Marker>>, <<"dataset is busy">>}

\* results of `zfs snapshot`
SnapshotOutcomes ==
    {[ok |-> TRUE, stderr |-> << >>]}
        \cup {[ok |-> FALSE, stderr |-> s] : s \in StderrTexts}

\* results of `zfs get -Hpr written` in a run: a nonzero return code, or
\* the line of the dataset followed by at most one other line
WrittenOutcomes ==
    {[ok |-> FALSE, lines |-> << >>]}
        \cup {[ok |-> TRUE, lines |-> <<Line(Source, w)>>] : w \in WrittenValues}
        \cup {[ok |-> TRUE, lines |-> <<Line(Source, 0), Line(n, 512)>>] :
                    n \in {Snap(Source, Y30), Snap(Source, O60), Child}}

\* what a call leaves behind: its return value ("raised" when it raised),
\* the exception, the commands it issued, the store it acted on and the
\* verdict of has_changed
Result(ret, e, lg, st, ch) ==
    [ret |-> ret, err |-> e, log |-> lg, store |-> st, changed |-> ch]

---------------------------------------------------------------------------
(* Yazbaka.snapshot *)

\* self.snapshot_name set by __init__
snapshot_name(a, nw) == a.label \o Str1("_") \o Stamp(nw)

snapshot(a, nw, store, ch, out) ==
    LET name == Snap(a.source, snapshot_name(a, nw))
        cmd  == Cmd("snapshot",
                    IF Find(a.send, Str1("R")) # -1 THEN <<"-", "r">> ELSE None,
                    name, None)
    IN  IF out.ok
          THEN Result("True", "none", <<cmd>>, Append(store, name), ch)
        ELSE IF Find(out.stderr, <<Marker>>) # 0
          THEN Result("raised", "PermissionError",
                      <<cmd, Failed("snapshot", out.stderr)>>, store, ch)
          ELSE Result("raised", "ZFSError",
                      <<cmd, Failed("snapshot", out.stderr)>>, store, ch)

---------------------------------------------------------------------------
(* Yazbaka.conditional_snapshot *)

\* re.search(r"[0-9][0-9\-_]*$", last_snap): as _get_timestamp, without "T"
omit_timestamp(last_snap) ==
    LET starts == {k \in 1..Len(last_snap) :
                      /\ last_snap[k] \in Digits
                      /\ \A m \in k..Len(last_snap) :
                            last_snap[m] \in Digits \cup {"-", "_"}}
    IN  IF starts = {} THEN None
        ELSE SubSeq(last_snap, Min(starts), Len(last_snap))

\* datetime.fromisoformat accepts the text: it has the timestamp's format
is_isoformat(ts) ==
    Len(ts) = StampWidth /\ \A k \in 1..Len(ts) : ts[k] \in Digits

\* datetime.fromisoformat(ts), in minutes
fromisoformat(ts) == 10 * DigitVal(ts[1]) + DigitVal(ts[2])

\* line 228 with >= for >
too_recent_inclusive(a, nw, ts) == a.omit >= nw - fromisoformat(ts)

\* line 228: the last snapshot was taken within the omit duration
too_recent(a, nw, ts) == a.omit > nw - fromisoformat(ts)

\* line 215 without the no_omit_unchanged flag
skip_unchanged_ignores_flag(a, verdict) == ~verdict

\* line 215: nothing was written and unchanged snapshots are omitted
skip_unchanged(a, verdict) == ~verdict /\ ~a.no_omit_unchanged

\* lines 220-233: the omit check, then the snapshot
omit_then_snapshot(a, nw, store, ch, env) ==
    LET list  == Cmd("list", None, a.source, None)
        snaps == list_yaz_snapshots(a, a.source, store)
        ts    == omit_timestamp(Last(snaps))
        snap  == snapshot(a, nw, store, ch, env.snap)
    IN  IF a.omit = 0
          THEN snap
        ELSE IF ~env.listOk
          THEN Result("raised", "ZFSError", <<list, Failed("list", None)>>, store, ch)
        ELSE IF snaps = << >>
          THEN [snap EXCEPT !.log = <<list>> \o snap.log]
        ELSE IF ts = None
          THEN Result("raised", "AttributeError", <<list>>, store, ch)
        ELSE IF ~is_isoformat(ts)
          THEN Result("raised", "ValueError", <<list>>, store, ch)
        ELSE IF too_recent(a, nw, ts)
          THEN Result("False", "none", <<list>>, store, ch)
          ELSE [snap EXCEPT !.log = <<list>> \o snap.log]

conditional_snapshot(a, nw, store, env) ==
    LET get     == Cmd("get written", None, a.source, None)
        verdict == has_changed(a, env.written.lines)
        ch      == IF verdict THEN "changed" ELSE "unchanged"
        rest    == omit_then_snapshot(a, nw, store, ch, env)
    IN  IF a.transfer_only
          THEN Result("False", "none", << >>, store, "none")
        ELSE IF ~env.written.ok
          THEN Result("raised", "ZFSError",
                      <<get, Failed("get written", None)>>, store, "none")
        ELSE IF skip_unchanged(a, verdict)
          THEN Result("False", "none", <<get>>, store, ch)
          ELSE [rest EXCEPT !.log = <<get>> \o rest.log]

---------------------------------------------------------------------------
(* Yazbaka.transfer *)

\* what a transfer leaves behind: the exception, the commands issued, the
\* destination store, and the locals src, dest, pairs of incremental_backup
Transferred(e, lg, dstore, s, d, ps) ==
    [err |-> e, log |-> lg, destStore |-> dstore, src |-> s, dest |-> d, pairs |-> ps]

\* zfs recv -F of an incremental replication stream (zfs send -R -i or -I)
\* destroys the snapshots that do not exist on the sending side
destroys(a) ==
    /\ Find(a.recv, Str1("F")) # -1
    /\ Find(a.send, Str1("R")) # -1
    /\ a.incremental \/ a.full_incremental

\* the destination after `send | recv` ran: a stream that was sent whole
\* and received leaves the sent snapshot on the destination, next to the
\* snapshots zfs recv did not destroy
received(a, sstore, dstore, src_end, pipe) ==
    LET name == Snap(a.destination, AfterAt(src_end))
        sent == {AfterAt(sstore[k]) : k \in 1..Len(sstore)}
        kept == IF destroys(a)
                  THEN SelectSeq(dstore, LAMBDA n : AfterAt(n) \in sent)
                  ELSE dstore
    IN  IF pipe.sendOk /\ pipe.recvOk /\ \A k \in 1..Len(dstore) : dstore[k] # name
          THEN Append(kept, name)
          ELSE dstore

\* the commands of the pipeline that ended with a nonzero return code
exits(pipe) ==
    (IF pipe.sendOk THEN << >> ELSE <<Failed("send", None)>>)
        \o (IF pipe.recvOk THEN << >> ELSE <<Failed("recv", None)>>)

\* res.returncode of the shell pipeline: the exit status of its last command
returncode(pipe) == IF pipe.recvOk THEN 0 ELSE 1

\* line 90 taking the first listed snapshot for the last
last_snap_first(snaps) == snaps[1]

\* line 90: last_snap = self.list_yaz_snapshots(self.args.source)[-1]
last_snap_of(snaps) == Last(snaps)

new_backup(a, sstore, dstore, env) ==
    LET list  == Cmd("list", None, a.source, None)
        snaps == list_yaz_snapshots(a, a.source, sstore)
        name  == Snap(a.source, AfterAt(last_snap_of(snaps)))
        send  == Cmd("send", a.send, None, name)
    IN  IF ~env.listSrcOk
          THEN Transferred("NoMatchingSnapshots", <<list, Failed("list", None)>>,
                           dstore, None, None, None)
        ELSE IF snaps = << >>
          THEN Transferred("NoMatchingSnapshots", <<list>>, dstore, None, None, None)
        ELSE IF returncode(env.pipe) # 0
          THEN Transferred("ZFSError", <<list, send>> \o exits(env.pipe),
                           received(a, sstore, dstore, name, env.pipe), None, None, None)
          ELSE Transferred("none", <<list, send>> \o exits(env.pipe),
                           received(a, sstore, dstore, name, env.pipe), None, None, None)

\* line 121 taking the first listed snapshot for the last
src_end_first(s) == s[1]

\* line 121: src_end = src[-1]
src_end_of(s) == Last(s)

\* line 122 with the test dropped
nothing_to_send_never(src_start, src_end) == FALSE

\* line 122: the last matched point is the last snapshot of the source
nothing_to_send(src_start, src_end) == src_start = src_end

incremental_backup(a, sstore, dstore, env) ==
    LET lists == Cmd("list", None, a.source, None)
        listd == Cmd("list", None, a.destination, None)
        s     == list_yaz_snapshots(a, a.source, sstore)
        d     == list_yaz_snapshots(a, a.destination, dstore)
        ps    == get_pairs(s, d)
        src_start == Snap(a.source, Last(ps))
        src_end   == src_end_of(s)
        iflag == IF a.full_incremental THEN <<"-", "I">> ELSE <<"-", "i">>
        send  == Cmd("send", a.send \o iflag, src_start, src_end)
    IN  IF ~env.listSrcOk
          THEN Transferred("ZFSError", <<lists, Failed("list", None)>>,
                           dstore, None, None, None)
        ELSE IF ~env.listDestOk
          THEN Transferred("ZFSError", <<lists, listd, Failed("list", None)>>,
                           dstore, s, None, None)
        ELSE IF Len(ps) = 0
          THEN Transferred("NoMatchingSnapshots", <<lists, listd>>, dstore, s, d, ps)
        ELSE IF nothing_to_send(src_start, src_end)
          THEN Transferred("NoMatchingSnapshots", <<lists, listd>>, dstore, s, d, ps)
        ELSE IF returncode(env.pipe) # 0
          THEN Transferred("ZFSError", <<lists, listd, send>> \o exits(env.pipe),
                           received(a, sstore, dstore, src_end, env.pipe), s, d, ps)
          ELSE Transferred("none", <<lists, listd, send>> \o exits(env.pipe),
                           received(a, sstore, dstore, src_end, env.pipe), s, d, ps)

transfer(a, sstore, dstore, env) ==
    IF a.incremental \/ a.full_incremental
      THEN incremental_backup(a, sstore, dstore, env)
      ELSE new_backup(a, sstore, dstore, env)

---------------------------------------------------------------------------
(* get_pairs applied to bounded inputs *)

PairSuffixes == {Y00, Y30, Y60, YZ00, YX}

\* listings of up to MaxLen snapshots of a dataset, in any order; a dataset
\* holds no name twice
Listings(dataset) ==
    {s \in SeqsUpTo({Snap(dataset, x) : x \in PairSuffixes}, MaxLen) :
        \A a, b \in 1..Len(s) : a # b => s[a] # s[b]}

PairsInit ==
    /\ parsed = << >> /\ time_str = << >> /\ delta = << >>
    /\ src \in Listings(Source)
    /\ dest \in Listings(Destination)
    /\ pairs = << >>
    /\ pc = "call"
    /\ args = DefaultArgs
    /\ now = 0
    /\ srcStore = << >>
    /\ destStore = << >>
    /\ changed = "none"
    /\ decision = "none"
    /\ log = << >>
    /\ err = "none"
    /\ records = << >>
    /\ steps = << >>
    /\ srcBefore = << >>
    /\ destBefore = << >>

CallGetPairs ==
    /\ pc = "call"
    /\ pairs' = get_pairs(src, dest)
    /\ pc' = "returned"
    /\ UNCHANGED <<parsed, time_str, delta,
                   args, now, srcStore, destStore, changed, decision, log, err,
                   src, dest, records, steps, srcBefore, destBefore>>

PairsNext == CallGetPairs

PairsSpec == PairsInit /\ [][PairsNext]_vars

---------------------------------------------------------------------------
(* has_changed applied to bounded record streams *)

ChangeInit ==
    /\ parsed = << >> /\ time_str = << >> /\ delta = << >>
    /\ records \in SeqsUpTo(RecordLines, MaxRecords)
    /\ args \in {[DefaultArgs EXCEPT !.send = s] : s \in SendOptions}
    /\ changed = "none"
    /\ pc = "call"
    /\ now = 0
    /\ srcStore = << >>
    /\ destStore = << >>
    /\ decision = "none"
    /\ log = << >>
    /\ err = "none"
    /\ src = << >>
    /\ dest = << >>
    /\ pairs = << >>
    /\ steps = << >>
    /\ srcBefore = << >>
    /\ destBefore = << >>

CallHasChanged ==
    /\ pc = "call"
    /\ changed' = IF has_changed(args, records) THEN "changed" ELSE "unchanged"
    /\ pc' = "returned"
    /\ UNCHANGED <<parsed, time_str, delta,
                   args, now, srcStore, destStore, decision, log, err,
                   src, dest, pairs, records, steps, srcBefore, destBefore>>

ChangeNext == CallHasChanged

ChangeSpec == ChangeInit /\ [][ChangeNext]_vars

---------------------------------------------------------------------------
(* Yazbaka.do_all: one run of the program *)

\* the snapshots a dataset can hold before the run, in the order the store
\* lists them (the order of creation): the tool's own at minutes 0, 30, 60,
\* a hand-made one and a foreign one between them
SourceHistory == <<Y00, YX, Y30, O60, Y60>>
DestinationHistory == <<Y00, Y30, Y60>>

RECURSIVE SubSeqs(_)
\* the sequences obtained from s by deleting elements
SubSeqs(s) ==
    IF s = << >> THEN {<< >>}
    ELSE LET rest == SubSeqs(Tail(s))
         IN  rest \cup {<<Head(s)>> \o r : r \in rest}

\* listings of up to MaxStore snapshots of the history
Stores(dataset, history) ==
    {[k \in 1..Len(s) |-> Snap(dataset, s[k])] :
        s \in {x \in SubSeqs(history) : Len(x) <= MaxStore}}

\* outcomes of the queries and commands a call can issue: one outcome
\* stands for all when the call does not issue the command
OutcomesIf(issued, outcomes) ==
    IF issued THEN outcomes ELSE {CHOOSE o \in outcomes : TRUE}

Init ==
    /\ parsed = << >> /\ time_str = << >> /\ delta = << >>
    /\ args \in ValidArgs
    /\ now = 90
    /\ srcStore \in Stores(Source, SourceHistory)
    /\ destStore \in Stores(Destination, DestinationHistory)
    /\ srcBefore = srcStore
    /\ destBefore = destStore
    /\ pc = "conditional_snapshot"
    /\ changed = "none"
    /\ decision = "none"
    /\ log = << >>
    /\ err = "none"
    /\ src = None
    /\ dest = None
    /\ pairs = None
    /\ records = << >>
    /\ steps = << >>

\* line 276: the call, for each way the store can answer it
ConditionalSnapshot ==
    /\ pc = "conditional_snapshot"
    /\ \E r \in {conditional_snapshot(args, now, srcStore,
                                       [written |-> w, listOk |-> l, snap |-> s]) :
                    w \in OutcomesIf(~args.transfer_only, WrittenOutcomes),
                    l \in OutcomesIf(~args.transfer_only /\ args.omit # 0, BOOLEAN),
                    s \in OutcomesIf(~args.transfer_only, SnapshotOutcomes)} :
          /\ decision' = r.ret
          /\ changed' = r.changed
          /\ err' = r.err
          /\ log' = log \o r.log
          /\ srcStore' = r.store
          /\ pc' = IF r.err = "none" THEN "snap_only" ELSE "failed"
    /\ steps' = Append(steps, "conditional_snapshot")
    /\ UNCHANGED <<parsed, time_str, delta,
                   args, now, destStore, src, dest, pairs, records,
                   srcBefore, destBefore>>

\* line 278 testing transfer_only for snap_only
returns_after_snapshot_wrong_flag(a) == a.transfer_only

\* line 278
returns_after_snapshot(a) == a.snap_only

\* lines 278-279
SnapOnlyReturn ==
    /\ pc = "snap_only"
    /\ returns_after_snapshot(args)
    /\ pc' = "done"
    /\ UNCHANGED <<parsed, time_str, delta,
                   args, now, srcStore, destStore, changed, decision, log, err,
                   src, dest, pairs, records, steps, srcBefore, destBefore>>

\* line 283: the call, for each way the store can answer it
Transfer ==
    /\ pc = "snap_only"
    /\ ~returns_after_snapshot(args)
    /\ \E r \in {transfer(args, srcStore, destStore,
                           [listSrcOk |-> ls, listDestOk |-> ld,
                            pipe |-> [sendOk |-> so, recvOk |-> ro]]) :
                    ls \in BOOLEAN,
                    ld \in OutcomesIf(args.incremental \/ args.full_incremental,
                                      BOOLEAN),
                    so \in BOOLEAN, ro \in BOOLEAN} :
          /\ err' = r.err
          /\ log' = log \o r.log
          /\ destStore' = r.destStore
          /\ src' = r.src
          /\ dest' = r.dest
          /\ pairs' = r.pairs
          /\ pc' = IF r.err = "none" THEN "cleanup" ELSE "failed"
    /\ steps' = Append(steps, "transfer")
    /\ UNCHANGED <<parsed, time_str, delta,
                   args, now, srcStore, changed, decision, records,
                   srcBefore, destBefore>>

\* line 285 with the test dropped
skips_cleanup_never(a) == FALSE

\* line 285
skips_cleanup(a) == a.no_cleanup

\* cleanup keeping only the newest snapshot of the source
cleanup_keeps_newest(store) ==
    IF store = << >> THEN store ELSE <<Last(store)>>

\* Yazbaka.cleanup: `pass`, the source keeps every snapshot
cleanup(store) == store

\* lines 285-288: cleanup is a placeholder and issues nothing
Cleanup ==
    /\ pc = "cleanup"
    /\ ~skips_cleanup(args)
    /\ srcStore' = cleanup(srcStore)
    /\ pc' = "done"
    /\ steps' = Append(steps, "cleanup")
    /\ UNCHANGED <<parsed, time_str, delta,
                   args, now, destStore, changed, decision, log, err,
                   src, dest, pairs, records, srcBefore, destBefore>>

\* line 285, no_cleanup set: do_all returns
NoCleanup ==
    /\ pc = "cleanup"
    /\ skips_cleanup(args)
    /\ pc' = "done"
    /\ UNCHANGED <<parsed, time_str, delta,
                   args, now, srcStore, destStore, changed, decision, log, err,
                   src, dest, pairs, records, steps, srcBefore, destBefore>>

Next == ConditionalSnapshot \/ SnapOnlyReturn \/ Transfer \/ Cleanup \/ NoCleanup

Spec == Init /\ [][Next]_vars

---------------------------------------------------------------------------
(* A run from the parsed command line: validate_args, then do_all *)

\* ascii(s), the type argparse applies to every text argument
Quoted(s) == Str1("'") \o s \o Str1("'")

\* namespaces parse_args can return: texts quoted by type=ascii, flags that
\* are set or not, no destination when --snap-only is given without one
ParsedArgs ==
    LET texts ==
            [source : {Quoted(Source), Quoted(<<"p", "d">>), Quoted(Str1("/") \o Source)},
             label : {Quoted(Label)},
             send : {Quoted(<< >>), Quoted(<<"R">>), Quoted(<<"R", "x">>)},
             recv : {Quoted(<< >>), Quoted(<<"F">>), Quoted(<<"z">>)},
             omit : {None, Quoted(<<"1", "h">>), Quoted(<<"h">>),
                     Quoted(<<"1", "h", "3", "0", "m">>)},
             incremental : BOOLEAN, full_incremental : BOOLEAN,
             transfer_only : {FALSE}, no_omit_unchanged : {FALSE},
             snap_only : BOOLEAN, no_cleanup : BOOLEAN]
        destinations ==
            {Quoted(Destination), Quoted(<<"q", "d">>), Quoted(Str1("/") \o Destination)}
    IN  {[k \in DOMAIN t \cup {"destination"} |->
             IF k = "destination" THEN d ELSE t[k]] :
            t \in texts, d \in destinations}
        \cup {t \in texts : t.snap_only}

ValidateInit ==
    /\ parsed \in ParsedArgs
    /\ args = parsed
    /\ pc = "validate_args"
    /\ now = 90
    /\ srcStore = <<Snap(Source, Y30)>>
    /\ destStore = << >>
    /\ srcBefore = srcStore
    /\ destBefore = destStore
    /\ changed = "none"
    /\ decision = "none"
    /\ log = << >>
    /\ err = "none"
    /\ src = None
    /\ dest = None
    /\ pairs = None
    /\ records = << >>
    /\ steps = << >>
    /\ time_str = << >>
    /\ delta = << >>

\* validate_args(args) of the main program (exit_on_error) or
\* validate_args(args, False) of __init__; a namespace that passes goes on
\* to do_all
ValidateArgs ==
    /\ pc = "validate_args"
    /\ \E exit_on_error \in BOOLEAN :
          LET r == validate_args(args, exit_on_error)
          IN  /\ args' = r.args
              /\ err' = r.err
              /\ pc' = IF r.err = "none" THEN "conditional_snapshot" ELSE "failed"
    /\ UNCHANGED <<parsed, time_str, delta, now, srcStore, destStore, changed,
                   decision, log, src, dest, pairs, records, steps,
                   srcBefore, destBefore>>

ValidateNext == ValidateArgs \/ Next

ValidateSpec == ValidateInit /\ [][ValidateNext]_vars

---------------------------------------------------------------------------
(* _get_timedelta applied to bounded time strings *)

\* the unit spellings _get_timedelta recognises
Units ==
    unit_minutes \cup unit_hours \cup unit_days \cup unit_weeks
        \cup unit_months \cup unit_years

\* texts that follow the number and are no unit: nothing, an unknown letter,
\* a unit in upper case, a cut-off unit, two units combined
NoUnits ==
    {<< >>, <<"x">>, <<"H">>, <<"m", "o">>, <<"h", "3", "0", "m">>, <<"h", "m">>}

\* numbers around the largest timedelta, 999999999 days
LongSpecs ==
    {<<"9", "9", "9", "9", "9", "9", "9", "9", "9", "d">>,
     <<"1", "0", "0", "0", "0", "0", "0", "0", "0", "0", "d">>,
     <<"2", "7", "3", "9", "7", "2", "6", "y">>,
     <<"2", "7", "3", "9", "7", "2", "7", "y">>,
     <<"1", "4", "2", "8", "5", "7", "1", "4", "2", "w">>,
     <<"1", "4", "2", "8", "5", "7", "1", "4", "3", "w">>}

\* time strings: up to MaxDigits digits, or none, followed by a unit or not
TimeSpecs ==
    {n \o u : n \in SeqsUpTo(Digits, MaxDigits), u \in Units \cup NoUnits}
        \cup LongSpecs

TimedeltaInit ==
    /\ time_str \in TimeSpecs
    /\ delta = << >>
    /\ pc = "call"
    /\ parsed = << >>
    /\ args = DefaultArgs
    /\ now = 0
    /\ srcStore = << >>
    /\ destStore = << >>
    /\ srcBefore = << >>
    /\ destBefore = << >>
    /\ changed = "none"
    /\ decision = "none"
    /\ log = << >>
    /\ err = "none"
    /\ src = None
    /\ dest = None
    /\ pairs = None
    /\ records = << >>
    /\ steps = << >>

CallGetTimedelta ==
    /\ pc = "call"
    /\ delta' = _get_timedelta(time_str)
    /\ pc' = "returned"
    /\ UNCHANGED <<parsed, time_str, args, now, srcStore, destStore, changed,
                   decision, log, err, src, dest, pairs, records, steps,
                   srcBefore, destBefore>>

TimedeltaNext == CallGetTimedelta

TimedeltaSpec == TimedeltaInit /\ [][TimedeltaNext]_vars

---------------------------------------------------------------------------
(* Properties of get_pairs (PairsSpec) *)

Suffixes(names) == [k \in 1..Len(names) |-> AfterAt(names[k])]

RECURSIVE IsSubseqFrom(_, _, _, _)
IsSubseqFrom(p, s, k, m) ==
    IF k > Len(p) THEN TRUE
    ELSE IF m > Len(s) THEN FALSE
    ELSE IF p[k] = s[m] THEN IsSubseqFrom(p, s, k + 1, m + 1)
    ELSE IsSubseqFrom(p, s, k, m + 1)

\* p is obtained from s by deleting elements
IsSubseq(p, s) == IsSubseqFrom(p, s, 1, 1)

\* the timestamps of the suffixes never decrease along the list
Ascending(sfx) ==
    \A a, b \in 1..Len(sfx) :
        a < b => ~StrLess(_get_timestamp(sfx[b]), _get_timestamp(sfx[a]))

\* every suffix has a timestamp, and the timestamps increase along the list
StrictlyAscending(sfx) ==
    /\ \A a \in 1..Len(sfx) : _get_timestamp(sfx[a]) # None
    /\ \A a, b \in 1..Len(sfx) :
          a < b => StrLess(_get_timestamp(sfx[a]), _get_timestamp(sfx[b]))

Count(x, s) == Cardinality({k \in 1..Len(s) : s[k] = x})

Range(s) == {s[k] : k \in 1..Len(s)}

\* C1: the list get_pairs returns is a subsequence of the source's suffixes
\* and of the destination's suffixes, and it is in ascending order whenever
\* the source list is.
C1_PairsSubsequence ==
    pc = "returned" =>
        /\ IsSubseq(pairs, Suffixes(src))
        /\ IsSubseq(pairs, Suffixes(dest))
        /\ Ascending(Suffixes(src)) => Ascending(pairs)

\* ascending lists of which get_pairs drops elements of either side
C1_Witness ==
    /\ pc = "returned"
    /\ Ascending(Suffixes(src)) /\ Ascending(Suffixes(dest))
    /\ Len(pairs) = 2
    /\ Len(src) = 4 /\ Len(dest) = 3
    /\ pairs[1] # pairs[2]

\* C2: for strictly ascending lists whose suffixes all have a timestamp,
\* every suffix held by both lists is returned exactly once, so the last
\* element returned is the latest common suffix.
C2_CommonExactlyOnce ==
    (/\ pc = "returned"
     /\ StrictlyAscending(Suffixes(src))
     /\ StrictlyAscending(Suffixes(dest)))
    => LET common == Range(Suffixes(src)) \cap Range(Suffixes(dest))
       IN  /\ \A x \in common : Count(x, pairs) = 1
           /\ common # {} =>
                 /\ pairs # << >>
                 /\ Last(pairs) \in common
                 /\ \A x \in common :
                       ~StrLess(_get_timestamp(Last(pairs)), _get_timestamp(x))

\* the destination holds a later snapshot than the last one of the source
C2_Witness ==
    /\ pc = "returned"
    /\ Len(src) = 2 /\ Len(dest) = 3
    /\ StrictlyAscending(Suffixes(src))
    /\ StrictlyAscending(Suffixes(dest))
    /\ Suffixes(dest)[2] = Suffixes(src)[2]
    /\ Last(pairs) = Suffixes(src)[2]
    /\ Count(Last(pairs), pairs) = 1

\* C3: two lists with the same suffixes give all of them back, and an empty
\* list on either side gives the empty list.
C3_IdenticalAndEmpty ==
    pc = "returned" =>
        /\ Suffixes(src) = Suffixes(dest) => pairs = Suffixes(src)
        /\ (src = << >> \/ dest = << >>) => pairs = << >>

C3_Witness ==
    /\ pc = "returned"
    /\ Len(src) = 3
    /\ Suffixes(src) = Suffixes(dest)
    /\ pairs = Suffixes(src)
    /\ YX \in Range(pairs)

---------------------------------------------------------------------------
(* Properties of has_changed (ChangeSpec) *)

\* a snapshot named <label>_... by this tool, of the dataset or of a child
OwnSnapshot(name) ==
    /\ Find(name, Str1("@")) # -1
    /\ Len(AfterAt(name)) > Len(Label)
    /\ SubSeq(AfterAt(name), 1, Len(Label) + 1) = Label \o Str1("_")

\* C5: a stream in which the live record of the source dataset reports a
\* nonzero byte count yields "changed", whatever the other records are and
\* with or without recursion.
C5_LiveWriteChanged ==
    (/\ pc = "returned"
     /\ \E k \in 1..Len(records) :
           records[k].name = Source /\ records[k].written # 0)
    => changed = "changed"

\* the live write is reported between snapshots of the tool's own label
C5_Witness ==
    /\ pc = "returned"
    /\ Len(records) = 3
    /\ records[2].name = Source /\ records[2].written # 0
    /\ OwnSnapshot(records[1].name) /\ OwnSnapshot(records[3].name)
    /\ changed = "changed"

\* C6: a stream of nothing but snapshots of the configured label yields
\* "unchanged", whatever their byte counts.
C6_OwnSnapshotsUnchanged ==
    (/\ pc = "returned"
     /\ \A k \in 1..Len(records) : OwnSnapshot(records[k].name))
    => changed = "unchanged"

C6_Witness ==
    /\ pc = "returned"
    /\ Len(records) = 2
    /\ \A k \in 1..Len(records) :
          OwnSnapshot(records[k].name) /\ records[k].written # 0
    /\ Find(args.send, Str1("R")) # -1
    /\ changed = "unchanged"

---------------------------------------------------------------------------
(* Properties of a run (Spec) *)

Issued(cmd) == \E k \in 1..Len(log) : log[k].cmd = cmd

\* the send commands of the run, in order
Sends == SelectSeq(log, LAMBDA c : c.cmd = "send")

\* conditional_snapshot has run and nothing has run after it
AfterGate == steps = <<"conditional_snapshot">>

\* conditional_snapshot got an answer to each query it made and could read
\* the time of the last snapshot: it raised nothing before its decision
GateDecided ==
    /\ err \notin {"AttributeError", "ValueError"}
    /\ ~(err = "ZFSError" /\ ~Issued("snapshot"))

\* the labelled snapshots of the source when the run started
LabelledBefore == list_yaz_snapshots(args, Source, srcBefore)

\* minutes between the last labelled snapshot and now
Elapsed == now - fromisoformat(omit_timestamp(Last(LabelledBefore)))

TooRecent ==
    /\ args.omit # 0
    /\ LabelledBefore # << >>
    /\ Elapsed < args.omit

NewSnapshot == Snap(Source, Label \o Str1("_") \o Stamp(now))

\* C7: the snapshot command is issued exactly when transfer-only is not
\* set, and the verdict is "changed" or no-omit-unchanged is set, and the
\* last labelled snapshot is not younger than a configured omit duration;
\* when nothing fails the snapshot then exists and the call returns True.
C7_GateDecision ==
    (AfterGate /\ GateDecided) =>
        LET proceed == /\ ~args.transfer_only
                       /\ (changed = "changed" \/ args.no_omit_unchanged)
                       /\ ~TooRecent
        IN  /\ Issued("snapshot") <=> proceed
            /\ err = "none" =>
                  /\ decision = "True" <=> proceed
                  /\ srcStore = (IF proceed THEN Append(srcBefore, NewSnapshot)
                                            ELSE srcBefore)

\* nothing was written, and the snapshot is made for no-omit-unchanged
\* after the omit check let it pass
C7_Witness ==
    /\ AfterGate
    /\ args.no_omit_unchanged /\ changed = "unchanged"
    /\ args.omit # 0 /\ LabelledBefore # << >>
    /\ decision = "True"
    /\ Last(srcStore) = NewSnapshot

\* C8: once the omit check is reached with a labelled snapshot present,
\* the snapshot is skipped exactly when the elapsed time is below the omit
\* duration: with 60 minutes, skipped at 30, made at 60 and at 90.
C8_OmitWindow ==
    (/\ AfterGate /\ GateDecided
     /\ ~args.transfer_only
     /\ (changed = "changed" \/ args.no_omit_unchanged)
     /\ args.omit # 0
     /\ LabelledBefore # << >>)
    => /\ ~Issued("snapshot") <=> Elapsed < args.omit
       /\ args.omit = 60 =>
             /\ Elapsed = 30 => ~Issued("snapshot")
             /\ Elapsed = 60 => Issued("snapshot")
             /\ Elapsed = 90 => Issued("snapshot")

\* the elapsed time equals the omit duration and the snapshot is made
C8_Witness ==
    /\ AfterGate /\ GateDecided
    /\ Issued("list") /\ decision = "True"
    /\ args.omit = 60
    /\ LabelledBefore # << >>
    /\ Elapsed = 60

\* C9: in snap-only mode the only steps of a run are the snapshot decision
\* and the return to Done, which issues no query or command, enters neither
\* transfer nor cleanup and leaves the stores alone.
C9_SnapOnlyStraightToDone ==
    [][args.snap_only =>
          \/ pc = "conditional_snapshot"
          \/ /\ pc = "snap_only"
             /\ pc' = "done"
             /\ UNCHANGED <<log, steps, srcStore, destStore>>]_vars

C9_Witness ==
    /\ args.snap_only
    /\ pc = "done"
    /\ decision = "True"
    /\ ~Issued("send")

StepOrder == <<"conditional_snapshot", "transfer", "cleanup">>

\* C10: the steps entered are a prefix of snapshot decision, transfer,
\* cleanup; the transfer is entered after the decision returned; cleanup is
\* entered only without no-cleanup and with no error raised; a finished run
\* that is not snap-only ends after the transfer when no-cleanup is set and
\* after cleanup otherwise.
C10_StepOrder ==
    /\ Len(steps) <= Len(StepOrder)
    /\ steps = SubSeq(StepOrder, 1, Len(steps))
    /\ Len(steps) >= 2 => decision \in {"True", "False"}
    /\ Len(steps) = 3 => ~args.no_cleanup /\ err = "none"
    /\ (pc = "done" /\ ~args.snap_only) =>
          steps = (IF args.no_cleanup THEN SubSeq(StepOrder, 1, 2) ELSE StepOrder)

\* a run with no-cleanup that sent a snapshot and ended after the transfer
C10_Witness ==
    /\ pc = "done"
    /\ args.no_cleanup
    /\ steps = <<"conditional_snapshot", "transfer">>
    /\ Len(Sends) = 1

\* the labelled snapshots the transfer lists on either side
SrcListing == list_yaz_snapshots(args, Source, srcStore)
DestListing == list_yaz_snapshots(args, Destination, destBefore)

\* C4: an incremental or full-incremental transfer whose listings were
\* answered issues no send and fails with NoMatchingSnapshots when nothing
\* matches or the last matched point is the last source snapshot, and
\* otherwise issues exactly one send, from the last matched point to the
\* last source snapshot.
C4_IncrementalSend ==
    (/\ args.incremental \/ args.full_incremental
     /\ Len(steps) >= 2
     /\ ~(err = "ZFSError" /\ Sends = << >>))
    => LET matched == get_pairs(SrcListing, DestListing)
           iflag   == IF args.full_incremental THEN <<"-", "I">> ELSE <<"-", "i">>
       IN  IF matched = << >> \/ Snap(Source, Last(matched)) = Last(SrcListing)
             THEN err = "NoMatchingSnapshots" /\ Sends = << >>
             ELSE /\ Sends = <<Cmd("send", args.send \o iflag,
                                   Snap(Source, Last(matched)), Last(SrcListing))>>
                  /\ err # "NoMatchingSnapshots"

\* source A, B, C and destination A, B: the single delta B -> C
C4_Witness ==
    /\ args.incremental
    /\ Len(SrcListing) = 3
    /\ DestListing = <<Snap(Destination, AfterAt(SrcListing[1])),
                       Snap(Destination, AfterAt(SrcListing[2]))>>
    /\ Len(Sends) = 1
    /\ Sends[1].x = SrcListing[2]
    /\ Sends[1].y = SrcListing[3]

---------------------------------------------------------------------------
(* Properties of the full transfer and of failing commands (Spec) *)

\* the command ended with a nonzero return code in this run
ExitedNonzero(cmd) == \E k \in 1..Len(log) : log[k] = Failed(cmd, None)

\* C11: a full transfer (neither incremental flag) whose listing was
\* answered fails with NoMatchingSnapshots and issues no send when the source
\* has no snapshot of the label, and otherwise issues exactly one full send,
\* of the last listed snapshot, which a stream that went through leaves on
\* the destination.
C11_FullSend ==
    (/\ ~args.incremental /\ ~args.full_incremental
     /\ Len(steps) >= 2
     /\ ~ExitedNonzero("list"))
    => IF SrcListing = << >>
         THEN err = "NoMatchingSnapshots" /\ Sends = << >>
         ELSE /\ Sends = <<Cmd("send", args.send, None, Last(SrcListing))>>
              /\ err # "NoMatchingSnapshots"
              /\ err = "none" /\ ~ExitedNonzero("send") =>
                    \E k \in 1..Len(destStore) :
                       destStore[k] = Snap(Destination, AfterAt(Last(SrcListing)))

\* two labelled snapshots around a foreign one: the newer one is sent
C11_Witness ==
    /\ ~args.incremental /\ ~args.full_incremental
    /\ pc = "done"
    /\ Len(srcStore) = 3 /\ Len(SrcListing) = 2
    /\ Sends = <<Cmd("send", args.send, None, Last(srcStore))>>
    /\ destStore # << >>
    /\ Last(destStore) = Snap(Destination, AfterAt(Last(srcStore)))

\* C12: whenever the send side of the stream ends with a nonzero return
\* code, whatever the receive side returns, the transfer raises an error and
\* cleanup is not entered.
C12_SendFailureObserved ==
    ExitedNonzero("send")
    => err # "none" /\ pc = "failed" /\ Last(steps) = "transfer"

\* the stderr of the failed `zfs snapshot` of this run, if there is one
SnapshotStderr ==
    {log[k].y : k \in {j \in 1..Len(log) : log[j].cmd = "nonzero exit"
                                           /\ log[j].x = <<"snapshot">>}}

\* C13: a failed `zfs snapshot` is reported as PermissionError exactly when
\* its stderr contains the marker "permission denied", at the start of the
\* text or later, and as a plain ZFSError when the marker is absent.
C13_PermissionIffMarker ==
    \A stderr \in SnapshotStderr :
       IF Find(stderr, <<Marker>>) # -1
         THEN err = "PermissionError"
         ELSE err = "ZFSError"

\* C14: a read-only query (`zfs get written` of the change detector, or a
\* `zfs list` of the omit check, the full transfer or the incremental
\* transfer) that ends with a nonzero return code ends the run at that step
\* with ZFSError: never with NoMatchingSnapshots, and a failed
\* `zfs get written` gives no verdict.
C14_QueryFailureSurfaces ==
    (ExitedNonzero("get written") \/ ExitedNonzero("list"))
    => /\ err = "ZFSError"
       /\ pc = "failed"
       /\ Last(log).cmd = "nonzero exit"
       /\ ExitedNonzero("get written") => changed = "none"

---------------------------------------------------------------------------
(* Properties of validation (ValidateSpec) *)

\* the text has a letter outside the set
HasLetterOutside(flags, allowed) ==
    \E k \in 1..Len(flags) : flags[k] \notin allowed

\* the dataset path has no separator or starts with "/"
BadPath(path) == Find(path, Str1("/")) = -1 \/ path[1] = "/"

\* the parsed command line has one of the faults validation looks for
Invalid ==
    \/ parsed.incremental /\ parsed.full_incremental
    \/ HasLetterOutside(unquote(parsed.send), SendFlags)
    \/ HasLetterOutside(unquote(parsed.recv), RecvFlags)
    \/ BadPath(unquote(parsed.source))
    \/ "destination" \in DOMAIN parsed /\ BadPath(unquote(parsed.destination))
    \/ parsed.omit # None /\ _get_timedelta(unquote(parsed.omit)).err # "none"

\* C15: when both incremental flags are set, a send or receive letter is
\* outside the allowed set, a dataset path has no separator or starts with
\* "/", or the omit text does not parse, validation ends the run with a
\* validation error (ValueError, or exit(1) from the main program) and no zfs
\* query or command is ever issued.
C15_ValidationFailsFast ==
    Invalid
    => /\ log = << >>
       /\ pc \in {"validate_args", "failed"}
       /\ pc = "failed" => err \in {"ValueError", "SystemExit"}

\* a receive letter outside the set, everything else in order: rejected
\* after send was rewritten, with nothing issued
C15_Witness ==
    /\ pc = "failed"
    /\ err = "ValueError"
    /\ parsed.recv = Quoted(<<"z">>)
    /\ parsed.send = Quoted(<<"R">>)
    /\ args.send = <<"-", "R">>
    /\ ~BadPath(unquote(parsed.source))
    /\ log = << >>

---------------------------------------------------------------------------
(* Properties of an unchanged source (Spec) *)

\* C16: when has_changed reports that nothing was written and
\* no-omit-unchanged is not set, the run makes no snapshot and issues no
\* send, in full mode as in incremental mode.
C16_UnchangedNothingSent ==
    (changed = "unchanged" /\ ~args.no_omit_unchanged)
    => ~Issued("snapshot") /\ ~Issued("send")

---------------------------------------------------------------------------
(* Properties of _get_timedelta (TimedeltaSpec) *)

\* the time string is a number followed by the unit spelling u
NumberThen(u) ==
    /\ Len(time_str) > Len(u)
    /\ SubSeq(time_str, Len(time_str) - Len(u) + 1, Len(time_str)) = u
    /\ \A k \in 1..(Len(time_str) - Len(u)) : time_str[k] \in Digits

\* the number in front of the unit spelling u
NumberBefore(u) == int(SubSeq(time_str, 1, Len(time_str) - Len(u)))

\* n minutes, hours, days, weeks, n*31 days or n*365 days, as whole days
\* and the minutes of the last day
Duration(n, u) ==
    IF u \in unit_minutes THEN [days |-> n \div 1440, minutes |-> n % 1440]
    ELSE IF u \in unit_hours THEN [days |-> n \div 24, minutes |-> (n % 24) * 60]
    ELSE IF u \in unit_days THEN [days |-> n, minutes |-> 0]
    ELSE IF u \in unit_weeks THEN [days |-> n * 7, minutes |-> 0]
    ELSE IF u \in unit_months THEN [days |-> n * 31, minutes |-> 0]
    ELSE [days |-> n * 365, minutes |-> 0]

Returned(d) ==
    delta = [err |-> "none", days |-> d.days, minutes |-> d.minutes]

\* C17 as stated: '<n><unit>' gives n minutes, hours, days, weeks, n*31 days
\* or n*365 days for every non-negative integer n and every recognised unit
\* spelling, and a text that is no number followed by one recognised unit
\* fails with ValueError.
C17_EveryNumber ==
    pc = "returned"
    => IF \E u \in Units : NumberThen(u)
         THEN \A u \in Units :
                 NumberThen(u) => Returned(Duration(NumberBefore(u), u))
         ELSE delta.err = "ValueError"

\* C17, amended: '<n><unit>' gives n minutes, hours, days, weeks, n*31 days
\* or n*365 days for every recognised unit spelling and every non-negative
\* integer n whose duration is at most 999999999 days, the largest
\* timedelta; a longer duration fails with OverflowError; a text that is no
\* number followed by one recognised unit (no leading digits, an unknown
\* unit, units combined) fails with ValueError.
C17_NumberInRange ==
    pc = "returned"
    => IF \E u \in Units : NumberThen(u)
         THEN \A u \in Units :
                 NumberThen(u) =>
                    IF Duration(NumberBefore(u), u).days <= 999999999
                      THEN Returned(Duration(NumberBefore(u), u))
                      ELSE delta.err = "OverflowError"
         ELSE delta.err = "ValueError"

\* '2mon' is 62 days
C17_Witness ==
    /\ pc = "returned"
    /\ time_str = <<"2", "m", "o", "n">>
    /\ delta = [err |-> "none", days |-> 62, minutes |-> 0]

---------------------------------------------------------------------------
(* Properties of the carry flag and of descendant records (ChangeSpec) *)

\* the record is of a dataset below the source, or of one of its snapshots
Descendant(name) == Find(name, Source \o Str1("/")) # -1

\* zfs send is recursive: records of descendants count
Recursive == Find(args.send, Str1("R")) # -1

\* the record is a snapshot boundary of another label with bytes written,
\* and has_changed does not pass over it
ForeignWrite(line) ==
    /\ Find(line.name, Str1("@")) # -1
    /\ Find(line.name, Str1("@") \o Label) = -1
    /\ line.written # 0
    /\ Recursive \/ ~Descendant(line.name)

\* C18: a live record (dataset or child dataset) with a zero byte count
\* leaves the flag zero as it is: a stream in which a snapshot of another
\* label reports nonzero bytes and only zero-byte live records follow yields
\* "changed".
C18_ZeroLiveKeepsCarry ==
    (/\ pc = "returned"
     /\ \E k \in 1..Len(records) :
           /\ ForeignWrite(records[k])
           /\ \A m \in (k + 1)..Len(records) :
                 /\ Find(records[m].name, Str1("@")) = -1
                 /\ records[m].written = 0)
    => changed = "changed"

\* the stream without the records of descendant datasets and their snapshots
WithoutDescendants ==
    SelectSeq(records, LAMBDA line : ~Descendant(line.name))

\* C19: when zfs send is not recursive, has_changed returns for every stream
\* what it returns for the stream with all descendant records removed,
\* whatever their kind, label and byte count.
C19_DescendantsNoInfluence ==
    (pc = "returned" /\ ~Recursive)
    => changed = (IF has_changed(args, WithoutDescendants)
                    THEN "changed" ELSE "unchanged")

\* a child dataset and a foreign snapshot of it report writes around a
\* zero-byte record of the dataset: unchanged, as for the dataset alone
C19_Witness ==
    /\ pc = "returned"
    /\ ~Recursive
    /\ records = <<Line(Child, 512), Line(Source, 0), Line(Snap(Child, O60), 512)>>
    /\ changed = "unchanged"

---------------------------------------------------------------------------
(* Properties of suffixes without timestamp (PairsSpec) *)

\* the suffix has no extractable timestamp
NoStamp(suffix) == _get_timestamp(suffix) = None

\* the names of a list without those whose suffix has no timestamp and is
\* not a suffix of the other list
WithoutLoneNoStamp(names, others) ==
    SelectSeq(names, LAMBDA n : ~NoStamp(AfterAt(n))
                                \/ AfterAt(n) \in Range(Suffixes(others)))

C20_SkippedWitness ==
    /\ pc = "returned"
    /\ Suffixes(src) = <<Y00, YX, Y30>>
    /\ Suffixes(dest) = <<Y00, Y30>>
    /\ pairs = <<Y00, Y30>>

---------------------------------------------------------------------------
(* Properties of the stores over a run (Spec) *)

\* every name of the list before is a name of the list after
AllKept(before, after) == Range(before) \subseteq Range(after)

\* the source holds what it held, and at most one snapshot more, named
\* <label>_<timestamp of the run>
SourceGainsAtMostOne ==
    \/ srcStore = srcBefore
    \/ srcStore = Append(srcBefore, Snap(Source, snapshot_name(args, now)))

\* the snapshots of the destination whose suffix the source holds
OnSendingSide ==
    SelectSeq(destBefore, LAMBDA n : AfterAt(n) \in Range(Suffixes(srcStore)))

---------------------------------------------------------------------------
(* Properties of the delta of an incremental transfer (Spec) *)

\* incremental_backup has issued its send
IncrementalSent ==
    /\ args.incremental \/ args.full_incremental
    /\ Sends # << >>

\* C22: whenever incremental_backup issues a send, the base of the delta is
\* in the source listing, its suffix is in the destination listing, and it
\* differs from the end, which is the last element of the source listing;
\* when the timestamps of the source listing strictly ascend, the timestamp
\* of the base is strictly smaller than that of the end.
C22_DeltaBase ==
    IncrementalSent
    => LET base == Sends[1].x
           end  == Sends[1].y
       IN  /\ base \in Range(SrcListing)
           /\ Snap(Destination, AfterAt(base)) \in Range(DestListing)
           /\ base # end
           /\ end = Last(SrcListing)
           /\ StrictlyAscending(Suffixes(SrcListing)) =>
                 StrLess(_get_timestamp(AfterAt(base)), _get_timestamp(AfterAt(end)))

\* source y_00, y_30 and the snapshot of the run, destination y_00, y_30:
\* the delta goes from y_30, which both hold, to the new snapshot
C22_Witness ==
    /\ IncrementalSent
    /\ Suffixes(SrcListing) = <<Y00, Y30, snapshot_name(args, now)>>
    /\ Suffixes(DestListing) = <<Y00, Y30>>
    /\ StrictlyAscending(Suffixes(SrcListing))
    /\ Sends[1].x = Snap(Source, Y30)
    /\ Sends[1].y = Snap(Source, snapshot_name(args, now))

===========================================================================
